---- MODULE Spec2Model ----
(***************************************************************************)
(* Model of the OOC scheduling engine of src/app.js: computeTeamState,     *)
(* canScheduleBetween, pickHomeAway, placeGameAtWeek, tryGenerateSchedule, *)
(* onGenerate and assignByes, over team lists accepted by                  *)
(* validateParsedTeams.                                                    *)
(***************************************************************************)
EXTENDS Integers, Sequences, FiniteSets, TLC

VARIABLES heap, teamsRef, avoidWeek0, pc, working, state, beforeRemaining,
          wi, eligible, ei, used, result, status, placed, baseSnapshot, weekStart,
          runs, byePrev

vars == <<heap, teamsRef, avoidWeek0, pc, working, state, beforeRemaining,
          wi, eligible, ei, used, result, status, placed, baseSnapshot, weekStart,
          runs, byePrev>>

(***************************************************************************)
(* Bounds of the model and constants of the program.                       *)
(***************************************************************************)
MaxNeed == 2

MaxRuns == 2

NumWeeks == 14

MaxGames == 12

maxByesPerTeam == 3

Weeks == 0 .. (NumWeeks - 1)

(***************************************************************************)
(* Strings.  A string is a sequence of one-character strings; trim and     *)
(* toLowerCase are computed character by character, and comparison is by   *)
(* code unit.                                                              *)
(***************************************************************************)
CodeUnit(c) ==
  CASE c = " " -> 32
    [] c = "A" -> 65 [] c = "B" -> 66 [] c = "C" -> 67 [] c = "D" -> 68
    [] c = "Z" -> 90
    [] c = "a" -> 97 [] c = "b" -> 98 [] c = "c" -> 99 [] c = "d" -> 100
    [] c = "z" -> 122

LowerChar(c) ==
  CASE c = "A" -> "a" [] c = "B" -> "b" [] c = "C" -> "c" [] c = "D" -> "d"
    [] c = "Z" -> "z"
    [] OTHER -> c

toLowerCase(s) == [i \in 1 .. Len(s) |-> LowerChar(s[i])]

RECURSIVE trimStart(_)
trimStart(s) ==
  IF s # <<>> /\ Head(s) = " " THEN trimStart(Tail(s)) ELSE s

RECURSIVE trimEnd(_)
trimEnd(s) ==
  IF s # <<>> /\ s[Len(s)] = " " THEN trimEnd(SubSeq(s, 1, Len(s) - 1)) ELSE s

trim(s) == trimEnd(trimStart(s))

\* t.name.trim().toLowerCase()
normKey(s) == toLowerCase(trim(s))

\* a < b on strings: lexicographic by code unit
RECURSIVE StrLess(_, _)
StrLess(a, b) ==
  IF b = <<>> THEN FALSE
  ELSE IF a = <<>> THEN TRUE
  ELSE IF CodeUnit(Head(a)) # CodeUnit(Head(b))
       THEN CodeUnit(Head(a)) < CodeUnit(Head(b))
       ELSE StrLess(Tail(a), Tail(b))

\* a.localeCompare(b): negative, zero or positive
localeCompare(a, b) == IF a = b THEN 0 ELSE IF StrLess(a, b) THEN -1 ELSE 1

(***************************************************************************)
(* Week slots.  A slot without an opponent carries the empty string.       *)
(***************************************************************************)
Slot(type, opponent, away) == [type |-> type, opponent |-> opponent, away |-> away]

ConfHome == Slot("confHome", <<>>, FALSE)
ConfAway == Slot("confAway", <<>>, FALSE)
Bye == Slot("bye", <<>>, FALSE)
Empty == Slot("empty", <<>>, FALSE)
LockedOOC(opponent, away) == Slot("lockedOOC", opponent, away)
OocGame(opponent, away) == Slot("oocGame", opponent, away)

GameTypes == {"confHome", "confAway", "lockedOOC", "oocGame"}

RECURSIVE SumSeq(_)
SumSeq(s) == IF s = <<>> THEN 0 ELSE Head(s) + SumSeq(Tail(s))

SeqToSet(s) == {s[i] : i \in 1 .. Len(s)}


(***************************************************************************)
(* Inputs: the team lists the runs start from.  Each team takes one of a   *)
(* few week layouts; a list is an input only if validateParsedTeams        *)
(* reports no error for it.                                                *)
(***************************************************************************)
TeamNames == << <<"A">>, <<"b", " ">>, <<" ", "C">> >>

\* how a locked opponent cell spells each team (other case, other padding)
LockedSpelling == << <<"a">>, <<" ", "B">>, <<"c", " ">> >>

Conferences == {"SEC", "ACC"}

TeamIdx == 1 .. Len(TeamNames)

NextTeam(i) == (i % Len(TeamNames)) + 1

ConfAt(i) == IF i % 2 = 0 THEN ConfHome ELSE ConfAway

MkWeeks(opens, byes, lockedWeek, lockedSlot) ==
  [i \in Weeks |->
     IF i \in opens THEN Empty
     ELSE IF i \in byes THEN Bye
     ELSE IF i = lockedWeek THEN lockedSlot
     ELSE ConfAt(i)]

Layouts == {"tight", "byes", "locked", "late"}

LayoutWeeks(i, layout) ==
  CASE layout = "tight"  -> MkWeeks({0, 1, 2}, {}, -1, Empty)
    [] layout = "byes"   -> MkWeeks({0, 1}, {2, 3}, -1, Empty)
    [] layout = "locked" -> MkWeeks({0, 2, 13}, {}, 1,
                                    LockedOOC(LockedSpelling[NextTeam(i)], TRUE))
    [] layout = "late"   -> MkWeeks({0, 12, 13}, {11}, -1, Empty)

Team(name, conference, oocNeeded, weeks) ==
  [name |-> name, conference |-> conference, oocNeeded |-> oocNeeded, weeks |-> weeks]

\* src/app.js validateParsedTeams: the list of errors is empty
validateParsedTeams(ts) ==
  LET key(t) == normKey(t.name)
      scheduled(t) ==
        Cardinality({w \in Weeks : t.weeks[w].type \in {"confHome", "confAway", "lockedOOC"}})
      byName(k) == {i \in 1 .. Len(ts) : key(ts[i]) = k}
  IN /\ \A i, j \in 1 .. Len(ts) : i # j => key(ts[i]) # key(ts[j])
     /\ \A i \in 1 .. Len(ts) :
          /\ scheduled(ts[i]) <= MaxGames
          /\ \A w \in Weeks :
               ts[i].weeks[w].type = "lockedOOC" =>
                 /\ trim(ts[i].weeks[w].opponent) # <<>>
                 /\ normKey(ts[i].weeks[w].opponent) # key(ts[i])
                 /\ \A j \in byName(normKey(ts[i].weeks[w].opponent)) :
                      ts[j].conference # ts[i].conference

Inputs ==
  {ts \in {[i \in TeamIdx |-> Team(TeamNames[i], c[i], n[i], LayoutWeeks(i, l[i]))] :
             c \in {f \in [TeamIdx -> Conferences] : f[1] = "SEC"},
             n \in [TeamIdx -> 0 .. MaxNeed],
             l \in [TeamIdx -> Layouts]} :
     validateParsedTeams(ts)}

(***************************************************************************)
(* The heap holds the team lists: teams.value and the working copy of a    *)
(* run are references into it, so that a write through one reference is    *)
(* seen through every reference to the same list.                          *)
(***************************************************************************)
Locs == {"L1", "L2"}

FreshLoc(src) == CHOOSE l \in Locs : l # src

\* no copy: the working list is the list it was given
deepCloneTeamsAlias(h, src) == [loc |-> src, heap |-> h]

deepCloneTeams(h, src) ==
  [loc  |-> FreshLoc(src),
   heap |-> [h EXCEPT ![FreshLoc(src)] =
               [i \in 1 .. Len(h[src]) |->
                  Team(h[src][i].name, h[src][i].conference, h[src][i].oocNeeded,
                       [w \in Weeks |-> Slot(h[src][i].weeks[w].type,
                                             h[src][i].weeks[w].opponent,
                                             h[src][i].weeks[w].away)])]]]

WeekSeq == [i \in 1 .. NumWeeks |-> i - 1]

\* every slot that is not a conference game counts as open
IsAvailableTypeLoose(type) == type \notin {"confHome", "confAway"}

IsAvailableType(type) == type = "empty" \/ type = "bye"

\* the locked games not taken off the need
oocRemainingOfNeedOnly(t, lockedOOC) == t.oocNeeded

oocRemainingOf(t, lockedOOC) ==
  IF t.oocNeeded - lockedOOC > 0 THEN t.oocNeeded - lockedOOC ELSE 0

computeTeamState(ts) ==
  [i \in 1 .. Len(ts) |->
     LET t == ts[i]
         ofType(S) == {w \in Weeks : t.weeks[w].type \in S}
         ooc == ofType({"lockedOOC", "oocGame"})
         lockedOOC == Cardinality(ofType({"lockedOOC"}))
     IN [ref            |-> i,
         name           |-> t.name,
         key            |-> normKey(t.name),
         conference     |-> t.conference,
         totalGames     |-> Cardinality(ofType({"confHome", "confAway"})) + Cardinality(ooc),
         homeGames      |-> Cardinality(ofType({"confHome"}))
                              + Cardinality({w \in ooc : ~t.weeks[w].away}),
         awayGames      |-> Cardinality(ofType({"confAway"}))
                              + Cardinality({w \in ooc : t.weeks[w].away}),
         playedOpp      |-> {normKey(t.weeks[w].opponent) :
                               w \in {x \in ooc : t.weeks[x].opponent # <<>>}},
         availableWeeks |-> SelectSeq(WeekSeq, LAMBDA w : IsAvailableType(t.weeks[w].type)),
         oocRemaining   |-> oocRemainingOf(t, lockedOOC)]]

includes(seq, x) == \E k \in 1 .. Len(seq) : seq[k] = x

\* an off-by-one cap: a team at the limit is still taken
underCapOffByOne(s) == s.totalGames <= MaxGames

\* t.totalGames < 12, the test of the eligible filter and of canScheduleBetween
underCap(s) == s.totalGames < MaxGames

\* a played-opponent lookup in one direction only
canScheduleBetweenOneWay(a, b) ==
  /\ a.key # b.key
  /\ a.conference # b.conference
  /\ ~(a.oocRemaining <= 0 \/ b.oocRemaining <= 0)
  /\ underCap(a) /\ underCap(b)
  /\ ~(b.key \in a.playedOpp)

canScheduleBetween(a, b) ==
  /\ a.key # b.key
  /\ a.conference # b.conference
  /\ ~(a.oocRemaining <= 0 \/ b.oocRemaining <= 0)
  /\ underCap(a) /\ underCap(b)
  /\ ~(b.key \in a.playedOpp \/ a.key \in b.playedOpp)

\* the away-games tie-break turned around
pickHomeAwayFewerAway(st, a, b) ==
  IF st[a].homeGames # st[b].homeGames
  THEN IF st[a].homeGames < st[b].homeGames
       THEN [home |-> a, away |-> b] ELSE [home |-> b, away |-> a]
  ELSE IF st[a].awayGames # st[b].awayGames
  THEN IF st[a].awayGames < st[b].awayGames
       THEN [home |-> a, away |-> b] ELSE [home |-> b, away |-> a]
  ELSE IF StrLess(st[a].key, st[b].key)
       THEN [home |-> a, away |-> b] ELSE [home |-> b, away |-> a]

\* the positions in the state list of the home and the away side
pickHomeAway(st, a, b) ==
  IF st[a].homeGames # st[b].homeGames
  THEN IF st[a].homeGames < st[b].homeGames
       THEN [home |-> a, away |-> b] ELSE [home |-> b, away |-> a]
  ELSE IF st[a].awayGames # st[b].awayGames
  THEN IF st[a].awayGames > st[b].awayGames
       THEN [home |-> a, away |-> b] ELSE [home |-> b, away |-> a]
  ELSE IF StrLess(st[a].key, st[b].key)
       THEN [home |-> a, away |-> b] ELSE [home |-> b, away |-> a]

\* both sides written as the home side
writeSlotsBothHome(st, h, loc, home, away, week) ==
  LET h1 == [h EXCEPT ![loc][st[home].ref].weeks[week] = OocGame(st[away].name, FALSE)]
  IN [h1 EXCEPT ![loc][st[away].ref].weeks[week] = OocGame(st[home].name, FALSE)]

\* the two writes of placeGameAtWeek into the team records
writeSlots(st, h, loc, home, away, week) ==
  LET h1 == [h EXCEPT ![loc][st[home].ref].weeks[week] = OocGame(st[away].name, FALSE)]
  IN [h1 EXCEPT ![loc][st[away].ref].weeks[week] = OocGame(st[home].name, TRUE)]

\* the state list and the heap after placing a against b at week
placeGameAtWeek(st, h, loc, a, b, week) ==
  LET ha == pickHomeAway(st, a, b)
      home == ha.home
      away == ha.away
      h2 == writeSlots(st, h, loc, home, away, week)
      s1 == [st EXCEPT ![a].totalGames = @ + 1]
      s2 == [s1 EXCEPT ![b].totalGames = @ + 1]
      s3 == [s2 EXCEPT ![home].homeGames = @ + 1]
      s4 == [s3 EXCEPT ![away].awayGames = @ + 1]
      s5 == [s4 EXCEPT ![a].oocRemaining = @ - 1]
      s6 == [s5 EXCEPT ![b].oocRemaining = @ - 1]
      s7 == [s6 EXCEPT ![a].playedOpp = @ \cup {st[b].key}]
      s8 == [s7 EXCEPT ![b].playedOpp = @ \cup {st[a].key}]
      s9 == [s8 EXCEPT ![a].availableWeeks = SelectSeq(@, LAMBDA w : w # week)]
      s10 == [s9 EXCEPT ![b].availableWeeks = SelectSeq(@, LAMBDA w : w # week)]
  IN [state |-> s10, heap |-> h2]

\* week 0 dropped instead of moved to the end
weekOrderWithoutZero(avoid) ==
  IF avoid THEN Tail(WeekSeq) ELSE WeekSeq

weekOrder(avoid) ==
  IF avoid THEN Tail(WeekSeq) \o <<0>> ELSE WeekSeq

\* the comparators of the two sorts of tryGenerateSchedule
cmpEligible(st, a, b) ==
  IF Len(st[a].availableWeeks) - Len(st[b].availableWeeks) # 0
  THEN Len(st[a].availableWeeks) - Len(st[b].availableWeeks)
  ELSE st[b].oocRemaining - st[a].oocRemaining

cmpCandidates(st, a, b) ==
  IF cmpEligible(st, a, b) # 0 THEN cmpEligible(st, a, b)
  ELSE localeCompare(st[a].key, st[b].key)

Compare(st, byKey, a, b) ==
  IF byKey THEN cmpCandidates(st, a, b) ELSE cmpEligible(st, a, b)

\* Array.prototype.sort is stable: an element goes after its equals
RECURSIVE InsertSorted(_, _, _, _)
InsertSorted(st, byKey, x, sorted) ==
  IF sorted = <<>> THEN <<x>>
  ELSE IF Compare(st, byKey, Head(sorted), x) > 0 THEN <<x>> \o sorted
  ELSE <<Head(sorted)>> \o InsertSorted(st, byKey, x, Tail(sorted))

RECURSIVE SortFrom(_, _, _, _)
SortFrom(st, byKey, seq, acc) ==
  IF seq = <<>> THEN acc
  ELSE SortFrom(st, byKey, Tail(seq), InsertSorted(st, byKey, Head(seq), acc))

sort(st, byKey, seq) == SortFrom(st, byKey, seq, <<>>)

StateIdx(st) == [i \in 1 .. Len(st) |-> i]

\* a team with a single game left to place is not taken
eligibleAtStrict(st, w) ==
  sort(st, FALSE,
       SelectSeq(StateIdx(st),
                 LAMBDA t : /\ st[t].oocRemaining > 1
                            /\ includes(st[t].availableWeeks, w)
                            /\ underCap(st[t])))

eligibleAt(st, w) ==
  sort(st, FALSE,
       SelectSeq(StateIdx(st),
                 LAMBDA t : /\ st[t].oocRemaining > 0
                            /\ includes(st[t].availableWeeks, w)
                            /\ underCap(st[t])))

\* the skip of consumed teams left out
alreadyUsedNever(usedKeys, st, t) == FALSE

\* used.has(t.key): the team was consumed earlier in this week
alreadyUsed(usedKeys, st, t) == st[t].key \in usedKeys

candidatesFor(st, elig, usedKeys, t, w) ==
  sort(st, TRUE,
       SelectSeq(elig,
                 LAMBDA o : /\ o # t
                            /\ st[o].key \notin usedKeys
                            /\ includes(st[o].availableWeeks, w)
                            /\ canScheduleBetween(st[t], st[o])))

sumRemaining(st) == SumSeq([i \in 1 .. Len(st) |-> st[i].oocRemaining])

(***************************************************************************)
(* assignByes: up to maxByesPerTeam byes per team, dealt in rounds.        *)
(***************************************************************************)
byeViews(list) ==
  [i \in 1 .. Len(list) |->
     [byes        |-> SelectSeq(WeekSeq, LAMBDA w : list[i].weeks[w].type = "bye"),
      emptiesNon0 |-> SelectSeq(WeekSeq, LAMBDA w : list[i].weeks[w].type = "empty" /\ w # 0),
      empties0    |-> SelectSeq(WeekSeq, LAMBDA w : list[i].weeks[w].type = "empty" /\ w = 0)]]

\* the week the view gives up for its next bye, -1 if it has none
byePick(v, avoid) ==
  IF avoid /\ Len(v.emptiesNon0) > 0 THEN Head(v.emptiesNon0)
  ELSE IF Len(v.emptiesNon0) > 0 THEN Head(v.emptiesNon0)
  ELSE IF Len(v.empties0) > 0 THEN Head(v.empties0)
  ELSE -1

byeShift(v, avoid) ==
  IF Len(v.emptiesNon0) > 0 THEN [v EXCEPT !.emptiesNon0 = Tail(@)]
  ELSE IF Len(v.empties0) > 0 THEN [v EXCEPT !.empties0 = Tail(@)]
  ELSE v

\* no skip: every round deals a bye
byeSkipNever(v, r) == FALSE

\* v.byes.length >= r || v.byes.length >= maxByesPerTeam
byeSkip(v, r) == Len(v.byes) >= r \/ Len(v.byes) >= maxByesPerTeam

RECURSIVE byeRounds(_, _, _, _, _)
byeRounds(list, views, avoid, r, k) ==
  IF r > maxByesPerTeam THEN list
  ELSE IF k > Len(views) THEN byeRounds(list, views, avoid, r + 1, 1)
  ELSE IF byeSkip(views[k], r)
       THEN byeRounds(list, views, avoid, r, k + 1)
  ELSE LET idx == byePick(views[k], avoid)
           v1 == byeShift(views[k], avoid)
       IN IF idx >= 0
          THEN byeRounds([list EXCEPT ![k].weeks[idx] = Bye],
                         [views EXCEPT ![k] = [v1 EXCEPT !.byes = Append(@, idx)]],
                         avoid, r, k + 1)
          ELSE byeRounds(list, [views EXCEPT ![k] = v1], avoid, r, k + 1)

assignByes(list, avoid) == byeRounds(list, byeViews(list), avoid, 1, 1)

(***************************************************************************)
(* The run: onGenerate calls tryGenerateSchedule, which walks the weeks of *)
(* weekOrder and, within a week, the eligible teams; then onGenerate       *)
(* handles the result.                                                     *)
(***************************************************************************)
Undefined == "undefined"

NoResult == [ok |-> FALSE, reason |-> Undefined, teams |-> Undefined,
             unscheduled |-> Undefined, scheduledOOC |-> Undefined,
             neededOOC |-> Undefined]

FailReason == "No valid OOC pairings available under constraints"

\* games counted once, not once per side
resultOfHalved(before, after, loc) ==
  IF before > 0 /\ before - after = 0
  THEN [NoResult EXCEPT !.reason = FailReason]
  ELSE [ok |-> TRUE, reason |-> Undefined, teams |-> loc, unscheduled |-> after,
        scheduledOOC |-> (before - after) \div 2, neededOOC |-> before]

\* a partial fulfilment reported as a failure
resultOfStrict(before, after, loc) ==
  IF before > 0 /\ after > 0
  THEN [NoResult EXCEPT !.reason = FailReason]
  ELSE [ok |-> TRUE, reason |-> Undefined, teams |-> loc, unscheduled |-> after,
        scheduledOOC |-> before - after, neededOOC |-> before]

\* the value tryGenerateSchedule returns
resultOf(before, after, loc) ==
  IF before > 0 /\ before - after = 0
  THEN [NoResult EXCEPT !.reason = FailReason]
  ELSE [ok |-> TRUE, reason |-> Undefined, teams |-> loc, unscheduled |-> after,
        scheduledOOC |-> before - after, neededOOC |-> before]

currentWeek == weekOrder(avoidWeek0)[wi]

\* nothing has run yet
NoRunYet ==
  /\ teamsRef = "L1"
  /\ avoidWeek0 \in BOOLEAN
  /\ working = Undefined
  /\ state = <<>>
  /\ beforeRemaining = 0
  /\ wi = 0
  /\ eligible = <<>>
  /\ ei = 0
  /\ used = {}
  /\ result = NoResult
  /\ status = "info"
  /\ placed = <<>>
  /\ baseSnapshot = <<>>
  /\ weekStart = <<>>
  /\ runs = 0
  /\ byePrev = <<>>

Init ==
  /\ \E ts \in Inputs : heap = [l \in Locs |-> IF l = "L1" THEN ts ELSE <<>>]
  /\ pc = "idle"
  /\ NoRunYet

\* onGenerate up to the first week of tryGenerateSchedule
StartRun ==
  /\ Len(heap[teamsRef]) > 0
  /\ LET c == deepCloneTeams(heap, teamsRef)
         st == computeTeamState(c.heap[c.loc])
     IN /\ heap' = c.heap
        /\ working' = c.loc
        /\ state' = st
        /\ beforeRemaining' = sumRemaining(st)
  /\ baseSnapshot' = heap[teamsRef]
  /\ status' = "info"
  /\ wi' = 1
  /\ pc' = "week"
  /\ placed' = <<>>
  /\ runs' = runs + 1
  /\ UNCHANGED <<teamsRef, avoidWeek0, eligible, ei, used, result, weekStart, byePrev>>

\* the first Generate on the loaded teams
Generate ==
  /\ pc = "idle"
  /\ StartRun

\* the head of one iteration of the loop over weekOrder
WeekBegin ==
  /\ pc = "week"
  /\ wi <= Len(weekOrder(avoidWeek0))
  /\ LET el == eligibleAt(state, currentWeek)
     IN /\ eligible' = el
        /\ used' = {}
        /\ IF el = <<>>
           THEN /\ wi' = wi + 1
                /\ ei' = 0
                /\ pc' = "week"
           ELSE /\ wi' = wi
                /\ ei' = 1
                /\ pc' = "team"
  /\ UNCHANGED <<heap, teamsRef, avoidWeek0, working, state, beforeRemaining,
                 result, status, placed, baseSnapshot, runs, byePrev>>
  /\ weekStart' = state

\* one iteration of the loop over the eligible teams of the week
TeamIter ==
  /\ pc = "team"
  /\ ei <= Len(eligible)
  /\ LET t == eligible[ei]
         candidates == candidatesFor(state, eligible, used, t, currentWeek)
     IN IF ~alreadyUsed(used, state, t) /\ candidates # <<>>
        THEN LET opp == candidates[1]
                 p == placeGameAtWeek(state, heap, working, t, opp, currentWeek)
                 ha == pickHomeAway(state, t, opp)
             IN /\ state' = p.state
                /\ heap' = p.heap
                /\ used' = used \cup {state[t].key, state[opp].key}
                /\ placed' = Append(placed, [week |-> currentWeek, t |-> t, opp |-> opp,
                                             home |-> ha.home, away |-> ha.away])
        ELSE UNCHANGED <<state, heap, used, placed>>
  /\ ei' = ei + 1
  /\ UNCHANGED <<teamsRef, avoidWeek0, pc, working, beforeRemaining, wi, eligible,
                 result, status, baseSnapshot, weekStart, runs, byePrev>>

\* the loop over the eligible teams is exhausted: on to the next week
WeekEnd ==
  /\ pc = "team"
  /\ ei > Len(eligible)
  /\ wi' = wi + 1
  /\ pc' = "week"
  /\ UNCHANGED <<heap, teamsRef, avoidWeek0, working, state, beforeRemaining,
                 eligible, ei, used, result, status, placed, baseSnapshot, weekStart,
                 runs, byePrev>>

\* tryGenerateSchedule returns
Return ==
  /\ pc = "week"
  /\ wi > Len(weekOrder(avoidWeek0))
  /\ result' = resultOf(beforeRemaining, sumRemaining(state), working)
  /\ pc' = "returned"
  /\ UNCHANGED <<heap, teamsRef, avoidWeek0, working, state, beforeRemaining,
                 wi, eligible, ei, used, status, placed, baseSnapshot, weekStart,
                 runs, byePrev>>

\* onGenerate handles the result
HandleResult ==
  /\ pc = "returned"
  /\ IF result.ok
     THEN /\ teamsRef' = result.teams
          /\ heap' = [heap EXCEPT ![result.teams] = assignByes(@, avoidWeek0)]
          /\ status' = IF result.unscheduled > 0 THEN "warning" ELSE "success"
     ELSE /\ status' = "error"
          /\ UNCHANGED <<teamsRef, heap>>
  /\ pc' = "done"
  /\ UNCHANGED <<avoidWeek0, working, state, beforeRemaining, wi, eligible, ei,
                 used, result, placed, baseSnapshot, weekStart, runs, byePrev>>

Next ==
  \/ Generate
  \/ WeekBegin
  \/ TeamIter
  \/ WeekEnd
  \/ Return
  \/ HandleResult

Spec == Init /\ [][Next]_vars

(***************************************************************************)
(* Generate pressed again: the next run starts from teams.value as the     *)
(* run before left it.                                                     *)
(***************************************************************************)
Regenerate ==
  /\ pc = "done"
  /\ runs < MaxRuns
  /\ StartRun

NextRegen ==
  \/ Next
  \/ Regenerate

SpecRegen == Init /\ [][NextRegen]_vars

(***************************************************************************)
(* assignByes on its own, applied twice in a row to a team list.  The      *)
(* lists are two teams whose weeks of a window are empty, bye or a game,   *)
(* around an oocGame pair at week 4 and a locked game at week 5.           *)
(***************************************************************************)
SlotKinds == {"empty", "bye", "game"}

ByeWindow(i) == IF i = 1 THEN {0, 1, 2, 3, 13} ELSE {0, 1, 2}

ByeWeeks(i, kind) ==
  [w \in Weeks |->
     IF w \in ByeWindow(i)
     THEN (IF kind[w] = "empty" THEN Empty ELSE IF kind[w] = "bye" THEN Bye ELSE ConfAt(w))
     ELSE IF w = 4 THEN OocGame(TeamNames[3 - i], i = 2)
     ELSE IF w = 5 THEN LockedOOC(LockedSpelling[3], i = 1)
     ELSE ConfAt(w)]

ByeLists ==
  {ts \in {<<Team(TeamNames[1], "SEC", 2, ByeWeeks(1, k1)),
             Team(TeamNames[2], "ACC", 2, ByeWeeks(2, k2))>> :
             k1 \in [ByeWindow(1) -> SlotKinds], k2 \in [ByeWindow(2) -> SlotKinds]} :
     \A i \in 1 .. 2 :
       Cardinality({w \in Weeks : ts[i].weeks[w].type \in GameTypes}) <= MaxGames}

InitByes ==
  /\ \E ts \in ByeLists : heap = [l \in Locs |-> IF l = "L1" THEN ts ELSE <<>>]
  /\ pc = "byes0"
  /\ NoRunYet

\* one call of assignByes on teams.value
ByePass ==
  /\ pc \in {"byes0", "byes1"}
  /\ byePrev' = heap[teamsRef]
  /\ baseSnapshot' = IF pc = "byes0" THEN heap[teamsRef] ELSE baseSnapshot
  /\ heap' = [heap EXCEPT ![teamsRef] = assignByes(@, avoidWeek0)]
  /\ pc' = IF pc = "byes0" THEN "byes1" ELSE "byes2"
  /\ UNCHANGED <<teamsRef, avoidWeek0, working, state, beforeRemaining, wi, eligible,
                 ei, used, result, status, placed, weekStart, runs>>

NextByes == ByePass

SpecByes == InitByes /\ [][NextByes]_vars

(***************************************************************************)
(* Vocabulary of the properties.                                           *)
(***************************************************************************)
InRun == pc # "idle"

Returned == pc \in {"returned", "done"}

Work == heap[working]

gameSlots(t) == Cardinality({w \in Weeks : t.weeks[w].type \in GameTypes})

oocWeeks(t) == {w \in Weeks : t.weeks[w].type \in {"lockedOOC", "oocGame"}}

availSet(s) == SeqToSet(s.availableWeeks)

PlacedIdx == 1 .. Len(placed)

playsIn(e, i) == e.t = i \/ e.opp = i

\* the slots of type oocGame the run has written so far, as <<team, week>>
newOocSlots ==
  {p \in TeamIdx \X Weeks :
     /\ Work[p[1]].weeks[p[2]].type = "oocGame"
     /\ baseSnapshot[p[1]].weeks[p[2]].type # "oocGame"}

\* the locked opponents of team i in the input, by normalized name
lockedKeys(i) ==
  {normKey(baseSnapshot[i].weeks[w].opponent) :
     w \in {x \in Weeks : baseSnapshot[i].weeks[x].type = "lockedOOC"}}

(***************************************************************************)
(* C1: every team's totalGames is at most 12 after every placement, and    *)
(* no team of the working (and so of the returned) list has more than 12   *)
(* slots of type confHome, confAway, lockedOOC or oocGame.                 *)
(***************************************************************************)
C1_AtMostTwelveGames ==
  InRun =>
    /\ \A i \in TeamIdx : state[i].totalGames <= 12 /\ gameSlots(Work[i]) <= 12
    /\ (Returned /\ result.ok) =>
         \A i \in TeamIdx : gameSlots(heap[result.teams][i]) <= 12

\* a team that reached 12 games by a placement and that only the cap keeps
\* from a further game against a team it shares an open week with
C1_Witness ==
  /\ pc = "returned"
  /\ \E i, j \in TeamIdx :
       /\ i # j
       /\ state[i].totalGames = 12
       /\ \E k \in PlacedIdx : playsIn(placed[k], i)
       /\ state[i].key # state[j].key
       /\ state[i].conference # state[j].conference
       /\ state[i].oocRemaining > 0 /\ state[j].oocRemaining > 0
       /\ state[j].totalGames < 12
       /\ state[j].key \notin state[i].playedOpp
       /\ state[i].key \notin state[j].playedOpp
       /\ availSet(state[i]) \cap availSet(state[j]) # {}

(***************************************************************************)
(* C2: every placed game is between two distinct teams of different        *)
(* conferences that have not played each other, neither by a locked        *)
(* opponent of the input on either side (by trimmed lower-cased name) nor  *)
(* by an earlier placement of the run; no team holds the same opponent in  *)
(* two OOC slots.                                                          *)
(***************************************************************************)
C2_NoRepeatNoSameConference ==
  InRun =>
    /\ \A k \in PlacedIdx :
         LET a == placed[k].t
             b == placed[k].opp
         IN /\ a # b
            /\ normKey(baseSnapshot[a].name) # normKey(baseSnapshot[b].name)
            /\ baseSnapshot[a].conference # baseSnapshot[b].conference
            /\ normKey(baseSnapshot[b].name) \notin lockedKeys(a)
            /\ normKey(baseSnapshot[a].name) \notin lockedKeys(b)
            /\ \A m \in 1 .. (k - 1) : {placed[m].t, placed[m].opp} # {a, b}
    /\ \A i \in TeamIdx : \A w1, w2 \in oocWeeks(Work[i]) :
         w1 # w2 => normKey(Work[i].weeks[w1].opponent) # normKey(Work[i].weeks[w2].opponent)

\* after a placement, two teams that share an open week and that only the
\* played-opponent lookup keeps apart
C2_Witness ==
  /\ pc = "returned"
  /\ placed # <<>>
  /\ \E i, j \in TeamIdx :
       /\ i # j
       /\ state[i].conference # state[j].conference
       /\ state[i].oocRemaining > 0 /\ state[j].oocRemaining > 0
       /\ state[i].totalGames < 12 /\ state[j].totalGames < 12
       /\ availSet(state[i]) \cap availSet(state[j]) # {}
       /\ state[j].key \in state[i].playedOpp

(***************************************************************************)
(* C3: within one week a team takes part in at most one placement, so a    *)
(* team has at most one game per week, and a slot of type oocGame is never *)
(* written again.                                                          *)
(***************************************************************************)
C3_OncePerWeek ==
  InRun =>
    \A k, m \in PlacedIdx : \A i \in TeamIdx :
      (k # m /\ playsIn(placed[k], i) /\ playsIn(placed[m], i))
        => placed[k].week # placed[m].week

C3_OocGameKept ==
  [][(InRun /\ working' = working) =>
       \A i \in TeamIdx : \A w \in Weeks :
         Work[i].weeks[w].type = "oocGame" => heap'[working][i].weeks[w] = Work[i].weeks[w]]_vars

C3_OneGamePerWeekAndImmutable == []C3_OncePerWeek /\ C3_OocGameKept

\* a team consumed as the opponent of a placement of this week comes up in
\* the loop while another eligible team is still open for it
C3_Witness ==
  /\ pc = "team"
  /\ ei <= Len(eligible)
  /\ state[eligible[ei]].key \in used
  /\ \E k \in PlacedIdx : placed[k].week = currentWeek /\ placed[k].opp = eligible[ei]
  /\ \E o \in SeqToSet(eligible) :
       /\ state[o].key \notin used
       /\ currentWeek \in availSet(state[o])
       /\ canScheduleBetween(state[eligible[ei]], state[o])

(***************************************************************************)
(* C4: every confHome, confAway and lockedOOC slot of the input is at the  *)
(* same week, with the same type, opponent and away flag, in the returned  *)
(* teams, and still after assignByes.                                      *)
(***************************************************************************)
C4_FixedSlotsKept ==
  InRun =>
    \A i \in TeamIdx : \A w \in Weeks :
      baseSnapshot[i].weeks[w].type \in {"confHome", "confAway", "lockedOOC"}
        => /\ Work[i].weeks[w] = baseSnapshot[i].weeks[w]
           /\ (Returned /\ result.ok) => heap[result.teams][i].weeks[w] = baseSnapshot[i].weeks[w]
           /\ (pc = "done" /\ result.ok) => heap[teamsRef][i].weeks[w] = baseSnapshot[i].weeks[w]

\* a finished run that placed a game for a team with a locked opponent and
\* dealt a bye
C4_Witness ==
  /\ pc = "done"
  /\ result.ok
  /\ \E k \in PlacedIdx : lockedKeys(placed[k].t) # {}
  /\ \E i \in TeamIdx : \E w \in Weeks :
       heap[teamsRef][i].weeks[w].type = "bye" /\ baseSnapshot[i].weeks[w].type = "empty"

(***************************************************************************)
(* C5: the scheduler overwrites only slots of type empty: a slot that      *)
(* differs from the input (an oocGame written by the matcher, a bye dealt  *)
(* by the bye pass) was empty in the input; a bye of the input is never    *)
(* replaced by an oocGame.                                                 *)
(***************************************************************************)
C5_OnlyEmptyOverwritten ==
  InRun =>
    \A i \in TeamIdx : \A w \in Weeks :
      Work[i].weeks[w] # baseSnapshot[i].weeks[w]
        => baseSnapshot[i].weeks[w].type = "empty"

(***************************************************************************)
(* C6: for every oocGame slot the matcher wrote at week w of team A naming *)
(* B, team B has at week w an oocGame slot naming A with the opposite away *)
(* flag.                                                                   *)
(***************************************************************************)
C6_Symmetry ==
  InRun =>
    \A p \in newOocSlots :
      \E j \in TeamIdx :
        /\ j # p[1]
        /\ Work[j].name = Work[p[1]].weeks[p[2]].opponent
        /\ Work[j].weeks[p[2]] = OocGame(Work[p[1]].name, ~Work[p[1]].weeks[p[2]].away)

\* inside a week, right after a placement
C6_Witness ==
  /\ pc = "team"
  /\ \E k \in PlacedIdx : placed[k].week = currentWeek
  /\ newOocSlots # {}

(***************************************************************************)
(* C7, as the code has it: the scheduledOOC of a successful run equals the *)
(* number of oocGame slots the run created (two per game).                 *)
(***************************************************************************)
C7_ScheduledCountsSlots ==
  (Returned /\ result.ok) =>
    /\ result.scheduledOOC = Cardinality(newOocSlots)
    /\ result.scheduledOOC = 2 * Len(placed)

\* C7 as stated: scheduledOOC is half the number of oocGame slots created
C7_ScheduledIsHalfOfSlots ==
  (Returned /\ result.ok) => 2 * result.scheduledOOC = Cardinality(newOocSlots)

\* a successful run that placed a game
C7_Witness ==
  /\ pc = "returned"
  /\ result.ok
  /\ placed # <<>>

(***************************************************************************)
(* C8: tryGenerateSchedule returns ok=false exactly when there is demand   *)
(* and the pass placed no game; otherwise ok=true with                     *)
(* neededOOC - unscheduled = scheduledOOC, also with unscheduled > 0.      *)
(***************************************************************************)
lockedCount(t) == Cardinality({w \in Weeks : t.weeks[w].type = "lockedOOC"})

inputDemand ==
  SumSeq([i \in TeamIdx |->
            IF baseSnapshot[i].oocNeeded > lockedCount(baseSnapshot[i])
            THEN baseSnapshot[i].oocNeeded - lockedCount(baseSnapshot[i]) ELSE 0])

C8_FailureIffNoProgress ==
  Returned =>
    /\ result.ok \in BOOLEAN
    /\ ~result.ok <=> (inputDemand > 0 /\ placed = <<>>)
    /\ ~result.ok => result.reason = FailReason
    /\ result.ok =>
         /\ result.neededOOC = inputDemand
         /\ result.unscheduled = sumRemaining(state)
         /\ result.neededOOC - result.unscheduled = result.scheduledOOC
         /\ result.scheduledOOC = 0 <=> placed = <<>>

\* a partial fulfilment: games placed and need left over
C8_Witness ==
  /\ pc = "returned"
  /\ result.ok
  /\ placed # <<>>
  /\ result.unscheduled > 0

(***************************************************************************)
(* C9: tryGenerateSchedule never modifies the team records it is given,    *)
(* and after ok=false onGenerate leaves teams.value as it was and deals no *)
(* bye.                                                                    *)
(***************************************************************************)
C9_InputUntouched ==
  /\ pc \in {"week", "team", "returned"} =>
       /\ heap[teamsRef] = baseSnapshot
       /\ working # teamsRef
  /\ (pc = "done" /\ ~result.ok) =>
       /\ teamsRef = "L1"
       /\ heap[teamsRef] = baseSnapshot
       /\ \A l \in Locs : \A i \in 1 .. Len(heap[l]) : \A w \in Weeks :
            heap[l][i].weeks[w].type = "bye" => baseSnapshot[i].weeks[w].type = "bye"

\* a failed run over teams that have empty slots a bye pass would fill
C9_Witness ==
  /\ pc = "done"
  /\ ~result.ok
  /\ beforeRemaining > 0
  /\ \E i \in TeamIdx : \E w \in Weeks : heap[teamsRef][i].weeks[w].type = "empty"

(***************************************************************************)
(* C10, amended: with avoidWeek0 the weeks are processed 1..13 and then 0, *)
(* without it 0..13, each once; every placement of week 0 comes after the  *)
(* placements of weeks 1-13; of two pairable teams whose only common open  *)
(* week is week 0 at least one plays at week 0, and they play each other   *)
(* when no third team is eligible in week 0.                               *)
(***************************************************************************)
OrderPos(w) == IF avoidWeek0 THEN (IF w = 0 THEN NumWeeks ELSE w) ELSE w + 1

\* at the start of the last week of the pass: a and b can be paired and
\* share week 0 and no other open week
pairableOnlyAtZero(a, b) ==
  /\ a # b
  /\ canScheduleBetween(weekStart[a], weekStart[b])
  /\ availSet(weekStart[a]) \cap availSet(weekStart[b]) = {0}

eligibleAtStart ==
  {i \in TeamIdx : /\ weekStart[i].oocRemaining > 0
                   /\ 0 \in availSet(weekStart[i])
                   /\ weekStart[i].totalGames < MaxGames}

C10_WeekZeroDeferred ==
  InRun =>
    /\ Len(weekOrder(avoidWeek0)) = NumWeeks
    /\ (pc \in {"week", "team"} /\ wi <= NumWeeks) => OrderPos(currentWeek) = wi
    /\ Returned => wi = NumWeeks + 1
    /\ \A k \in PlacedIdx : OrderPos(placed[k].week) <= wi
    /\ \A k, m \in PlacedIdx : k < m => OrderPos(placed[k].week) <= OrderPos(placed[m].week)
    /\ (Returned /\ avoidWeek0) =>
         \A a, b \in TeamIdx :
           pairableOnlyAtZero(a, b) =>
             /\ \E k \in PlacedIdx :
                  placed[k].week = 0 /\ (playsIn(placed[k], a) \/ playsIn(placed[k], b))
             /\ eligibleAtStart = {a, b} =>
                  \E k \in PlacedIdx : placed[k].week = 0 /\ {placed[k].t, placed[k].opp} = {a, b}

\* C10 as stated: two pairable teams whose only common open week is week 0
\* are paired with each other at week 0
C10_PairedAtWeekZero ==
  (Returned /\ avoidWeek0) =>
    \A a, b \in TeamIdx :
      pairableOnlyAtZero(a, b) =>
        \E k \in PlacedIdx : placed[k].week = 0 /\ {placed[k].t, placed[k].opp} = {a, b}

\* week 0 used last: a game at week 0 between two teams that could only
\* meet there, after a game in weeks 1-13
C10_Witness ==
  /\ pc = "returned"
  /\ avoidWeek0
  /\ \E k, m \in PlacedIdx :
       /\ placed[k].week = 0
       /\ pairableOnlyAtZero(placed[k].t, placed[k].opp)
       /\ placed[m].week >= 1

(***************************************************************************)
(* C11, amended: running assignByes twice in a row leaves no team with     *)
(* more byes than the larger of 3 and the number it started with, converts *)
(* no slot other than empty, and the second run changes nothing.           *)
(***************************************************************************)
byeCount(t) == Cardinality({w \in Weeks : t.weeks[w].type = "bye"})

Teams == heap[teamsRef]

AfterByePass == pc \in {"byes1", "byes2"}

onlyEmptyConverted ==
  \A i \in 1 .. Len(Teams) : \A w \in Weeks :
    Teams[i].weeks[w] # baseSnapshot[i].weeks[w]
      => baseSnapshot[i].weeks[w].type = "empty" /\ Teams[i].weeks[w] = Bye

C11_ByesCappedAndIdempotent ==
  AfterByePass =>
    /\ \A i \in 1 .. Len(Teams) :
         /\ byeCount(baseSnapshot[i]) <= 3 => byeCount(Teams[i]) <= 3
         /\ byeCount(baseSnapshot[i]) > 3 => byeCount(Teams[i]) = byeCount(baseSnapshot[i])
    /\ onlyEmptyConverted
    /\ pc = "byes2" => Teams = byePrev

\* C11 as stated: after the two runs no team has more than 3 byes
C11_AtMostThreeByes ==
  pc = "byes2" =>
    /\ \A i \in 1 .. Len(Teams) : byeCount(Teams[i]) <= 3
    /\ onlyEmptyConverted
    /\ Teams = byePrev

\* after the second run: the first run dealt a bye to a team that still has
\* an empty slot
C11_Witness ==
  /\ pc = "byes2"
  /\ \E i \in 1 .. Len(Teams) :
       /\ byeCount(Teams[i]) > byeCount(baseSnapshot[i])
       /\ \E w \in Weeks : Teams[i].weeks[w].type = "empty"

(***************************************************************************)
(* C12: of two distinct team states the home side is the one with fewer    *)
(* homeGames, on a tie the one with more awayGames, on a further tie the   *)
(* one with the smaller normalized key; the order of the arguments makes   *)
(* no difference; a placement adds one to the homeGames of the home side   *)
(* and one to the awayGames of the away side and to nothing else of these. *)
(***************************************************************************)
\* the home side by the three rules, from the counts before the placement
homeByRule(A, B, a, b) ==
  IF A.homeGames < B.homeGames THEN a
  ELSE IF B.homeGames < A.homeGames THEN b
  ELSE IF A.awayGames > B.awayGames THEN a
  ELSE IF B.awayGames > A.awayGames THEN b
  ELSE IF StrLess(A.key, B.key) THEN a ELSE b

\* the placements of the week in progress; their sides had the counts of
\* weekStart when they were placed
ThisWeekPlaced == {k \in PlacedIdx : placed[k].week = currentWeek}

C12_HomeAwayRule ==
  pc = "team" =>
    /\ \A a, b \in TeamIdx :
         a # b => /\ pickHomeAway(state, a, b) = pickHomeAway(state, b, a)
                  /\ pickHomeAway(state, a, b).home = homeByRule(state[a], state[b], a, b)
                  /\ pickHomeAway(state, a, b).away \in {a, b} \ {homeByRule(state[a], state[b], a, b)}
    /\ \A k \in ThisWeekPlaced :
         LET a == placed[k].t
             b == placed[k].opp
             h == homeByRule(weekStart[a], weekStart[b], a, b)
             v == IF h = a THEN b ELSE a
         IN /\ Work[h].weeks[currentWeek] = OocGame(Work[v].name, FALSE)
            /\ Work[v].weeks[currentWeek] = OocGame(Work[h].name, TRUE)
            /\ state[h].homeGames = weekStart[h].homeGames + 1
            /\ state[h].awayGames = weekStart[h].awayGames
            /\ state[v].awayGames = weekStart[v].awayGames + 1
            /\ state[v].homeGames = weekStart[v].homeGames
    /\ \A i \in TeamIdx :
         (\A k \in ThisWeekPlaced : ~playsIn(placed[k], i))
           => /\ state[i].homeGames = weekStart[i].homeGames
              /\ state[i].awayGames = weekStart[i].awayGames

\* a placement decided by the away-games tie-break, in favour of the team
\* with the larger key
C12_Witness ==
  /\ pc = "team"
  /\ \E k \in ThisWeekPlaced :
       LET a == placed[k].t
           b == placed[k].opp
           h == homeByRule(weekStart[a], weekStart[b], a, b)
           v == IF h = a THEN b ELSE a
       IN /\ weekStart[a].homeGames = weekStart[b].homeGames
          /\ weekStart[h].awayGames > weekStart[v].awayGames
          /\ StrLess(weekStart[v].key, weekStart[h].key)

(***************************************************************************)
(* C13: within a run a team's oocRemaining starts at                       *)
(* max(0, oocNeeded - locked-OOC count), never increases and never goes    *)
(* below 0; the team receives at most that many new games, and none when   *)
(* its locked games already meet its need.                                 *)
(***************************************************************************)
startRemaining(i) ==
  IF baseSnapshot[i].oocNeeded > lockedCount(baseSnapshot[i])
  THEN baseSnapshot[i].oocNeeded - lockedCount(baseSnapshot[i]) ELSE 0

gamesPlacedFor(i) == Cardinality({k \in PlacedIdx : playsIn(placed[k], i)})

newGamesOf(i) == Cardinality({p \in newOocSlots : p[1] = i})

C13_RemainingAccounted ==
  InRun =>
    \A i \in TeamIdx :
      /\ state[i].oocRemaining >= 0
      /\ state[i].oocRemaining = startRemaining(i) - gamesPlacedFor(i)
      /\ newGamesOf(i) = gamesPlacedFor(i)
      /\ newGamesOf(i) <= startRemaining(i)
      /\ lockedCount(baseSnapshot[i]) >= baseSnapshot[i].oocNeeded => newGamesOf(i) = 0

C13_RemainingNeverGrows ==
  [][(InRun /\ pc' # "idle") =>
       \A i \in TeamIdx : state'[i].oocRemaining <= state[i].oocRemaining]_vars

C13_RemainingBoundsNewGames == []C13_RemainingAccounted /\ C13_RemainingNeverGrows

\* a team whose locked game meets its need of one or more, left without a
\* new game although a team it could otherwise play shares an open week
C13_Witness ==
  /\ pc = "returned"
  /\ \E i, j \in TeamIdx :
       /\ i # j
       /\ baseSnapshot[i].oocNeeded >= 1
       /\ lockedCount(baseSnapshot[i]) >= baseSnapshot[i].oocNeeded
       /\ state[j].oocRemaining > 0
       /\ state[i].conference # state[j].conference
       /\ state[i].totalGames < MaxGames /\ state[j].totalGames < MaxGames
       /\ state[j].key \notin state[i].playedOpp
       /\ state[i].key \notin state[j].playedOpp
       /\ availSet(state[i]) \cap availSet(state[j]) # {}

(***************************************************************************)
(* C14: when the matcher finishes a week, no two teams are left that both  *)
(* have the week open and satisfy canScheduleBetween; and                  *)
(* tryGenerateSchedule returns ok=false exactly when there is demand and   *)
(* no two teams of the initial state satisfy canScheduleBetween and share  *)
(* an open week.                                                           *)
(***************************************************************************)
\* the position in weekOrder of the week the matcher finished last
weeksFinished ==
  IF pc = "team" THEN (IF ei > Len(eligible) THEN wi ELSE wi - 1) ELSE wi - 1

pairLeft(st, w) ==
  \E a, b \in TeamIdx :
    /\ a < b
    /\ w \in availSet(st[a]) \cap availSet(st[b])
    /\ canScheduleBetween(st[a], st[b])

C14_WeeklyPairingMaximal ==
  InRun =>
    /\ (weeksFinished >= 1 /\ weeksFinished <= Len(weekOrder(avoidWeek0)))
         => ~pairLeft(state, weekOrder(avoidWeek0)[weeksFinished])
    /\ Returned =>
         (~result.ok <=>
            /\ inputDemand > 0
            /\ \A w \in Weeks : ~pairLeft(computeTeamState(baseSnapshot), w))

\* the end of a week in which a game was placed and an eligible team was
\* left without one
C14_Witness ==
  /\ pc = "team"
  /\ ei > Len(eligible)
  /\ ThisWeekPlaced # {}
  /\ \E t \in SeqToSet(eligible) :
       /\ state[t].key \notin used
       /\ state[t].oocRemaining > 0
       /\ currentWeek \in availSet(state[t])

(***************************************************************************)
(* C15: after any number of consecutive Generate actions no team holds     *)
(* more OOC games (lockedOOC and oocGame slots) than                       *)
(* max(oocNeeded, its locked-OOC count).                                   *)
(***************************************************************************)
oocTarget(t) == IF t.oocNeeded > lockedCount(t) THEN t.oocNeeded ELSE lockedCount(t)

C15_OocWithinTarget ==
  \A i \in 1 .. Len(Teams) : Cardinality(oocWeeks(Teams[i])) <= oocTarget(Teams[i])

====
